---------------------------- MODULE Spec2Model ----------------------------
(***************************************************************************)
(* Model of package datachangelog of jec-go-helper: the gRPC audit         *)
(* interceptor (NewAuditInterceptor), the Sanitizer, the configuration     *)
(* lookups it uses, and the BulkIndexWriter of the Elasticsearch           *)
(* repository.                                                             *)
(*                                                                         *)
(* Go strings are sequences of one-character strings, so that ToLower,     *)
(* Split, Contains and the masking of redactString compute on characters. *)
(* A Go interface{} value is a tagged record: StrV, NumV, NilV, MapV,     *)
(* ListV.  A map[string]interface{} is MapV(f) with f a function from     *)
(* keys to values, or NilV for the nil map.                                *)
(***************************************************************************)
EXTENDS Integers, Sequences, FiniteSets, Bags, TLC

VARIABLES
    cfg,        \* the *InterceptorConfig the interceptor closure captured
    nCalls,     \* number of unary calls started so far
    callPc,     \* position of the current call: "idle", "handler", "returned"
    call,       \* locals of the current call of the interceptor closure
    ret,        \* (resp, err) the interceptor returned to the caller
    hret,       \* (resp, err) the downstream handler returned
    saveTasks,  \* goroutines spawned at part_003:220 whose Save has not returned
    logs,       \* the repository's content: log ID -> *DataChangeLog
    saveErrs,   \* IDs whose Repository.Save returned an error (printed, part_003:225)
    queue,      \* BulkIndexWriter.queue, the buffered channel
    stopClosed, \* BulkIndexWriter.stopChan has been closed
    status,     \* BulkIndexWriter.status (BatchWriterStatus)
    batchSize,  \* BulkIndexWriter.batchSize
    workers,    \* the worker goroutines, a bag of [pc, batch]: position and local batch
    writer,     \* the producer: what its last Write returned ("ok", "full", "stopped")
    closers,    \* per caller of Close / Flush: its position
    nWrites,    \* number of Write calls so far (K); the k-th call writes event k
    outcome,    \* per event: whether its Write returned nil (TRUE) or an error (FALSE)
    closeMark,  \* nWrites when Close was first called, -1 before
    handed,     \* per event: how many times it was passed to saveBatchDirect
    nStored,    \* number of events in the bulk requests that succeeded
    nFailed,    \* number of events in the bulk requests that failed
    panicked,   \* close of a closed channel: the process has panicked
    arg,        \* the arguments of the library call under way (a function of the package called on its own)
    res,        \* what that call returned
    repo        \* which Repository the calls go to: "mock" or "elasticsearch"

ivars == <<cfg, nCalls, callPc, call, ret, hret, saveTasks, logs, saveErrs>>
bvars == <<queue, stopClosed, status, batchSize, workers, writer, closers,
           nWrites, outcome, closeMark, handed, nStored, nFailed, panicked>>
pvars == <<arg, res, repo>>
vars == <<ivars, bvars, pvars>>

-----------------------------------------------------------------------------
(* Bounds of the model *)

MaxCalls == 1
MaxWrites == 3
MaxBatchSize == 2
MaxWorkers == 2
MaxWords == 2
MaxDepth == 4
MaxLen == 26

\* The most rules a configuration document holds
MaxRules == 1

\* The most events the store holds, the latest time of an event, and the
\* largest limit of a query
MaxLogs == 3
MaxTime == 3
MaxLimit == 2

\* The longest string the memory of the process holds
MaxMemory == 40

-----------------------------------------------------------------------------
(* Strings *)

UpperChars == <<"A","B","C","D","E","F","G","H","I","J","K","L","M",
                "N","O","P","Q","R","S","T","U","V","W","X","Y","Z">>
LowerChars == <<"a","b","c","d","e","f","g","h","i","j","k","l","m",
                "n","o","p","q","r","s","t","u","v","w","x","y","z">>

ToLowerChar(c) ==
    IF \E i \in DOMAIN UpperChars : UpperChars[i] = c
    THEN LowerChars[CHOOSE i \in DOMAIN UpperChars : UpperChars[i] = c]
    ELSE c

ToUpperChar(c) ==
    IF \E i \in DOMAIN LowerChars : LowerChars[i] = c
    THEN UpperChars[CHOOSE i \in DOMAIN LowerChars : LowerChars[i] = c]
    ELSE c

\* strings.ToLower
ToLower(s) == [i \in 1..Len(s) |-> ToLowerChar(s[i])]

\* strings.Contains
Contains(s, w) == \E i \in 0..(Len(s) - Len(w)) : SubSeq(s, i + 1, i + Len(w)) = w

\* strings.Split(s, c) for a one-character separator c
RECURSIVE Split(_, _)
Split(s, c) ==
    IF \A i \in 1..Len(s) : s[i] # c
    THEN <<s>>
    ELSE LET i == CHOOSE k \in 1..Len(s) : s[k] = c /\ \A j \in 1..(k - 1) : s[j] # c
         IN  <<SubSeq(s, 1, i - 1)>> \o Split(SubSeq(s, i + 1, Len(s)), c)

\* strings.Join(parts, sep)
RECURSIVE Join(_, _)
Join(parts, sep) ==
    IF Len(parts) = 0 THEN <<>>
    ELSE IF Len(parts) = 1 THEN parts[1]
    ELSE parts[1] \o sep \o Join(Tail(parts), sep)

\* strings.Repeat(c, n)
Repeat(c, n) == [i \in 1..n |-> c]

capitalizeFirstLetter(s) ==
    IF s = <<>> THEN s
    ELSE <<ToUpperChar(s[1])>> \o SubSeq(s, 2, Len(s))

-----------------------------------------------------------------------------
(* Values of type interface{} *)

StrV(s) == [t |-> "str", s |-> s]
NumV(s) == [t |-> "num", n |-> s]   \* a JSON number, held by its %v text
NilV == [t |-> "nil"]
MapV(f) == [t |-> "map", m |-> f]
ListV(l) == [t |-> "list", l |-> l]
BytesV(b) == [t |-> "bytes", b |-> b] \* a []byte
BadV == [t |-> "bad"]               \* a message json.Marshal / Unmarshal rejects
EmptyMap == MapV(<<>>)

Keys(d) == IF d.t = "map" THEN DOMAIN d.m ELSE {}

\* fmt.Sprintf("%v", val): only the text of strings and numbers is spelled
\* out; a map or a list prints as a non-empty bracketed text.
Sprintf(val) ==
    CASE val.t = "str" -> val.s
      [] val.t = "num" -> val.n
      [] val.t = "map" -> <<"m", "a", "p", "[", "]">>
      [] val.t = "list" -> <<"[", "]">>
      [] OTHER -> <<"<", "n", "i", "l", ">">>

-----------------------------------------------------------------------------
(* Sanitizer *)

RedactionChar == "*"

\* A fifth rounded down
FloorFifth(n) == n \div 5

\* math.Ceil(float64(n) * 0.2): the float64 0.2 exceeds 1/5 by 2^-54 / 5,
\* too little for the rounded product to pass the next integer, so the
\* ceiling is that of n/5 (compared with Go's arithmetic for n < 2000000).
CeilFifth(n) == (n + 4) \div 5

redactString(value) ==
    LET n == Len(value) IN
    IF n = 0 THEN value
    ELSE IF n <= 4 THEN Repeat(RedactionChar, n)
    ELSE LET v0 == CeilFifth(n)
             visible == IF v0 < 2 THEN 2 ELSE v0
             prefixLen == visible \div 2
             suffixLen == visible - prefixLen
         IN  SubSeq(value, 1, prefixLen)
                \o Repeat(RedactionChar, n - prefixLen - suffixLen)
                \o SubSeq(value, n - suffixLen + 1, n)

SanitizeValue(value) ==
    CASE value.t = "nil" -> NilV
      [] value.t = "str" -> StrV(redactString(value.s))
      [] value.t = "bytes" -> StrV(redactString(value.b))
      [] OTHER -> StrV(<<"*", "*", "*", "*">>)

LowerSet(fields) == {ToLower(fields[i]) : i \in DOMAIN fields}

RECURSIVE SanitizeMap(_, _, _)
RECURSIVE sanitizeSlice(_, _, _)

SanitizeMap(data, excludedFields, sensitiveFields) ==
    IF data.t = "nil" THEN NilV
    ELSE LET excluded == LowerSet(excludedFields)
             sensitive == LowerSet(sensitiveFields)
             kept == {k \in DOMAIN data.m : ToLower(k) \notin excluded}
         IN  MapV([k \in kept |->
                 IF ToLower(k) \in sensitive THEN SanitizeValue(data.m[k])
                 ELSE IF data.m[k].t = "map"
                      THEN SanitizeMap(data.m[k], excludedFields, sensitiveFields)
                 ELSE IF data.m[k].t = "list"
                      THEN sanitizeSlice(data.m[k], excludedFields, sensitiveFields)
                 ELSE data.m[k]])

sanitizeSlice(arr, excludedFields, sensitiveFields) ==
    ListV([i \in DOMAIN arr.l |->
        IF arr.l[i].t = "map"
        THEN SanitizeMap(arr.l[i], excludedFields, sensitiveFields)
        ELSE arr.l[i]])

-----------------------------------------------------------------------------
(* Configuration (Config, GlobalConfig, EntityConfig, PrimaryKeyConfig) *)

Operations == {"CREATE", "UPDATE", "DELETE", "PATCH", "RESCHEDULE", "VOID", "OTHER"}

\* The loaded configuration: global fields and four entity rules.  Every
\* rule passes Config.Validate (a domain, an entity, exactly one key mode).
\* Separator is "" where the YAML gives none: setDefaults runs before the
\* entities are parsed.
AuditConfig ==
    [Global |-> [Enabled |-> TRUE,
                 ExcludedFields |-> <<<<"n", "o", "t", "e">>>>,
                 SensitiveFields |-> <<<<"s", "s", "n">>>>],
     Entities |-> <<
        [Domain |-> <<"a", "p", "t">>, Entity |-> <<"A", "p", "t">>, Enabled |-> TRUE,
         Operations |-> Operations,
         PrimaryKey |-> [SingleKey |-> <<"i", "d">>, CompositeKeys |-> <<>>, Separator |-> <<>>],
         ExcludedFields |-> <<<<"t", "m", "p">>>>, SensitiveFields |-> <<<<"n", "a", "m", "e">>>>],
        [Domain |-> <<"p", "a", "t">>, Entity |-> <<"P", "a", "t">>, Enabled |-> TRUE,
         Operations |-> {"CREATE", "UPDATE", "DELETE"},
         PrimaryKey |-> [SingleKey |-> <<>>, CompositeKeys |-> <<<<"p", "n", "o">>, <<"b", "u">>>>,
                         Separator |-> <<>>],
         ExcludedFields |-> <<>>, SensitiveFields |-> <<<<"n", "a", "m", "e">>>>],
        [Domain |-> <<"l", "a", "b">>, Entity |-> <<"L", "a", "b", "R", "e", "s", "u", "l", "t">>, Enabled |-> TRUE,
         Operations |-> {"CREATE"},
         PrimaryKey |-> [SingleKey |-> <<"i", "d">>, CompositeKeys |-> <<>>, Separator |-> <<>>],
         ExcludedFields |-> <<>>, SensitiveFields |-> <<<<"n", "a", "m", "e">>>>],
        [Domain |-> <<"i", "n", "v">>, Entity |-> <<"I", "n", "v">>, Enabled |-> FALSE,
         Operations |-> {"CREATE"},
         PrimaryKey |-> [SingleKey |-> <<"i", "d">>, CompositeKeys |-> <<>>, Separator |-> <<>>],
         ExcludedFields |-> <<>>, SensitiveFields |-> <<>>] >>]

\* Index of the first rule of the domain, 0 when there is none
\* (the loops of shouldLogMethod and extractPrimaryKey).
EntityByDomain(config, domain) ==
    LET hits == {i \in DOMAIN config.Entities : config.Entities[i].Domain = domain}
    IN  IF hits = {} THEN 0 ELSE CHOOSE i \in hits : \A j \in hits : i <= j

\* Config.GetEntity: index of the first rule with that domain and entity, 0 for nil
GetEntity(config, domain, entity) ==
    LET hits == {i \in DOMAIN config.Entities :
                    /\ config.Entities[i].Domain = domain
                    /\ config.Entities[i].Entity = entity}
    IN  IF hits = {} THEN 0 ELSE CHOOSE i \in hits : \A j \in hits : i <= j

\* Config.MergeEntityConfig: the global lists followed by the rule's lists
MergeEntityConfig(config, entityCfg) ==
    [ExcludedFields |-> config.Global.ExcludedFields \o entityCfg.ExcludedFields,
     SensitiveFields |-> config.Global.SensitiveFields \o entityCfg.SensitiveFields]

\* The InterceptorConfig values the constructors of the package build.
CfgFromFile ==        \* SetupAuditInfrastructure, include_after_data: true
    [Enabled |-> TRUE, HasRepository |-> TRUE, HasConfig |-> TRUE, Config |-> AuditConfig,
     HasSanitizer |-> TRUE, IncludePayload |-> TRUE,
     ExcludedMethods |-> {}, IncludedMethods |-> {}]
CfgNoPayload ==       \* SetupAuditInfrastructure, include_after_data: false
    [CfgFromFile EXCEPT !.IncludePayload = FALSE]
CfgStandalone ==      \* StandaloneAuditInterceptor: Config is nil
    [CfgFromFile EXCEPT !.HasConfig = FALSE]
CfgDisabled ==        \* Enabled is false: the no-op interceptor
    [CfgFromFile EXCEPT !.Enabled = FALSE]

CfgGlobalOff ==       \* SetupAuditInfrastructure, global.enabled: false
    [CfgFromFile EXCEPT !.Config.Global.Enabled = FALSE]
CfgIncluded ==        \* an InterceptorConfig with IncludedMethods set
    [CfgFromFile EXCEPT !.IncludedMethods = {<<"i", "n", "v", ".", "A", "d", "d", "I", "n", "v">>}]

InterceptorConfigs ==
    {CfgFromFile, CfgNoPayload, CfgStandalone, CfgDisabled, CfgGlobalOff, CfgIncluded}

-----------------------------------------------------------------------------
(* Inputs of a unary call: info.FullMethod, req, and what the handler returns *)

FullMethods ==
    { <<"/", "a", "p", "t", ".", "S", "v", "c", "/", "A", "d", "d", "A", "p", "t">>, <<"/", "a", "p", "t", ".", "S", "v", "c", "/", "U", "p", "d", "a", "t", "e", "A", "p", "t">>, <<"/", "a", "p", "t", ".", "S", "v", "c", "/", "D", "e", "l", "e", "t", "e", "A", "p", "t">>,
      <<"/", "a", "p", "t", ".", "S", "v", "c", "/", "P", "a", "t", "c", "h", "A", "p", "t">>, <<"/", "a", "p", "t", ".", "S", "v", "c", "/", "V", "o", "i", "d", "A", "p", "t">>, <<"/", "a", "p", "t", ".", "S", "v", "c", "/", "R", "e", "s", "c", "h", "e", "d", "u", "l", "e", "A", "p", "t">>,
      <<"/", "a", "p", "t", ".", "S", "v", "c", "/", "G", "e", "t", "A", "p", "t">>, <<"/", "P", "a", "t", ".", "S", "v", "c", "/", "D", "e", "l", "e", "t", "e", "P", "a", "t">>, <<"/", "P", "a", "t", ".", "S", "v", "c", "/", "G", "e", "t", "P", "a", "t">>,
      <<"/", "l", "a", "b", ".", "S", "v", "c", "/", "A", "d", "d", "L", "a", "b">>, <<"/", "i", "n", "v", ".", "S", "v", "c", "/", "A", "d", "d", "I", "n", "v">>, <<"/", "z", "z", "z", ".", "S", "v", "c", "/", "A", "d", "d", "Z", "z", "z">>, <<"P", "i", "n", "g">> }

ReqFull ==
    MapV((<<"i", "d">> :> StrV(<<"A", "1">>)) @@ (<<"n", "a", "m", "e">> :> StrV(<<"A", "l", "i", "c", "e">>))
         @@ (<<"s", "s", "n">> :> StrV(<<"1", "2", "3", "4", "5", "6", "7", "8", "9">>)) @@ (<<"n", "o", "t", "e">> :> StrV(<<"m", "e", "m", "o">>))
         @@ (<<"t", "m", "p">> :> StrV(<<"x">>)))
ReqNoKey == MapV(<<"n", "a", "m", "e">> :> StrV(<<"A", "l", "i", "c", "e">>))
ReqComposite ==
    MapV((<<"p", "n", "o">> :> StrV(<<"P", "7">>)) @@ (<<"b", "u">> :> StrV(<<"B", "1">>)) @@ (<<"n", "a", "m", "e">> :> StrV(<<"R", "o", "b", "e", "r", "t">>)))
ReqPartKey == MapV((<<"p", "n", "o">> :> StrV(<<"P", "7">>)) @@ (<<"n", "a", "m", "e">> :> StrV(<<"R", "o", "b", "e", "r", "t">>)))
ReqPatch ==
    MapV((<<"i", "d">> :> StrV(<<"A", "1">>))
         @@ (<<"d", "a", "t", "a">> :> ListV(<< MapV((<<"f", "i", "e", "l", "d">> :> StrV(<<"n", "a", "m", "e">>))
                                      @@ (<<"v", "a", "l", "u", "e">> :> StrV(<<"C", "a", "r", "o", "l">>))) >>)))
Requests == {NilV, ReqFull, ReqNoKey, ReqComposite, ReqPartKey, ReqPatch}

RespFull ==
    MapV((<<"i", "d">> :> StrV(<<"A", "2">>)) @@ (<<"N", "a", "m", "e">> :> StrV(<<"A", "l", "i", "c", "e">>))
         @@ (<<"s", "s", "n">> :> NumV(<<"7">>)) @@ (<<"s", "t", "a", "t", "u", "s">> :> StrV(<<"O", "K">>)))
Responses == {NilV, EmptyMap, RespFull, BadV}

NoErr == "nil"
Errors == {NoErr, "Internal"}

-----------------------------------------------------------------------------
(* The interceptor: helpers of NewAuditInterceptor *)

\* protoToMap: nil for a nil message and for one the encoder rejects; a
\* message is held by the JSON object it encodes to.
protoToMap(msg) == IF msg.t = "map" THEN msg ELSE NilV

\* mergeMaps on the contents of two maps: m2 overwrites m1
mergeMaps(m1, m2) ==
    [k \in (DOMAIN m1) \cup (DOMAIN m2) |-> IF k \in DOMAIN m2 THEN m2[k] ELSE m1[k]]

\* An inference that looks for the update words before the delete words
inferOperationUpdateFirst(methodName) ==
    LET lower == ToLower(methodName) IN
    IF Contains(lower, <<"c", "r", "e", "a", "t", "e">>) \/ Contains(lower, <<"a", "d", "d">>) \/ Contains(lower, <<"i", "n", "s", "e", "r", "t">>)
    THEN "CREATE"
    ELSE IF Contains(lower, <<"u", "p", "d", "a", "t", "e">>) \/ Contains(lower, <<"m", "o", "d", "i", "f", "y">>) \/ Contains(lower, <<"e", "d", "i", "t">>)
    THEN "UPDATE"
    ELSE IF Contains(lower, <<"d", "e", "l", "e", "t", "e">>) \/ Contains(lower, <<"r", "e", "m", "o", "v", "e">>) THEN "DELETE"
    ELSE IF Contains(lower, <<"v", "o", "i", "d">>) THEN "VOID"
    ELSE IF Contains(lower, <<"p", "a", "t", "c", "h">>) THEN "PATCH"
    ELSE IF Contains(lower, <<"r", "e", "s", "c", "h", "e", "d", "u", "l", "e">>) THEN "RESCHEDULE"
    ELSE "OTHER"

inferOperation(methodName) ==
    LET lower == ToLower(methodName) IN
    IF Contains(lower, <<"c", "r", "e", "a", "t", "e">>) \/ Contains(lower, <<"a", "d", "d">>) \/ Contains(lower, <<"i", "n", "s", "e", "r", "t">>)
    THEN "CREATE"
    ELSE IF Contains(lower, <<"d", "e", "l", "e", "t", "e">>) \/ Contains(lower, <<"r", "e", "m", "o", "v", "e">>) THEN "DELETE"
    ELSE IF Contains(lower, <<"v", "o", "i", "d">>) THEN "VOID"
    ELSE IF Contains(lower, <<"p", "a", "t", "c", "h">>) THEN "PATCH"
    ELSE IF Contains(lower, <<"r", "e", "s", "c", "h", "e", "d", "u", "l", "e">>) THEN "RESCHEDULE"
    ELSE IF Contains(lower, <<"u", "p", "d", "a", "t", "e">>) \/ Contains(lower, <<"m", "o", "d", "i", "f", "y">>) \/ Contains(lower, <<"e", "d", "i", "t">>)
    THEN "UPDATE"
    ELSE "OTHER"

\* The key of the ExcludedMethods / IncludedMethods maps: domain + "." + methodName
MethodKey(domain, methodName) == domain \o <<".">> \o methodName

shouldLogMethod(c, domain, methodName) ==
    IF ~c.HasConfig THEN FALSE
    ELSE IF MethodKey(domain, methodName) \in c.ExcludedMethods THEN FALSE
    ELSE IF c.IncludedMethods # {} THEN MethodKey(domain, methodName) \in c.IncludedMethods
    ELSE LET i == EntityByDomain(c.Config, domain) IN
         IF i = 0 THEN FALSE
         ELSE IF ~c.Config.Entities[i].Enabled THEN FALSE
         ELSE inferOperation(methodName) \in c.Config.Entities[i].Operations

extractPrimaryKey(c, domain, methodName, req, resp) ==
    IF req.t = "nil" THEN <<>>
    ELSE
    LET i == IF c.HasConfig THEN EntityByDomain(c.Config, domain) ELSE 0
        reqMap == protoToMap(req)
        respMap == protoToMap(resp)
        fromReq == IF reqMap.t = "map" THEN reqMap.m ELSE <<>>
        dataMap == IF respMap.t = "map" THEN mergeMaps(fromReq, respMap.m) ELSE fromReq
        present(k) == k \in DOMAIN dataMap /\ dataMap[k].t # "nil"
    IN  IF DOMAIN dataMap = {} THEN <<>>
        ELSE LET pk == c.Config.Entities[i].PrimaryKey IN
        IF i # 0 /\ pk.SingleKey # <<>> /\ present(pk.SingleKey)
        THEN Sprintf(dataMap[pk.SingleKey])
        ELSE IF i # 0 /\ Len(pk.CompositeKeys) > 0
        THEN IF \E j \in DOMAIN pk.CompositeKeys : ~present(pk.CompositeKeys[j])
             THEN <<>>
             ELSE Join([j \in DOMAIN pk.CompositeKeys |-> Sprintf(dataMap[pk.CompositeKeys[j]])],
                       IF pk.Separator = <<>> THEN <<":">> ELSE pk.Separator)
        ELSE <<>>

parsePrimaryKey(pkStr) ==
    IF pkStr = <<>> THEN NilV ELSE MapV(<<"v", "a", "l", "u", "e">> :> StrV(pkStr))

\* The items loop of normalizePatchChangeData: each {field, value} item
\* with a string field and a value overwrites out[field], in list order.
RECURSIVE ApplyPatchItems(_, _)
ApplyPatchItems(out, items) ==
    IF Len(items) = 0 THEN out
    ELSE LET item == items[1]
             ok == /\ item.t = "map"
                   /\ <<"f", "i", "e", "l", "d">> \in DOMAIN item.m
                   /\ item.m[<<"f", "i", "e", "l", "d">>].t = "str"
                   /\ <<"v", "a", "l", "u", "e">> \in DOMAIN item.m
         IN  ApplyPatchItems(
                 IF ok THEN mergeMaps(out, item.m[<<"f", "i", "e", "l", "d">>].s :> item.m[<<"v", "a", "l", "u", "e">>]) ELSE out,
                 Tail(items))

normalizePatchChangeData(reqData) ==
    IF reqData.t = "nil" THEN NilV
    ELSE LET out == [k \in (DOMAIN reqData.m) \ {<<"d", "a", "t", "a">>} |-> reqData.m[k]] IN
         IF <<"d", "a", "t", "a">> \notin DOMAIN reqData.m THEN MapV(out)
         ELSE IF reqData.m[<<"d", "a", "t", "a">>].t # "list" THEN MapV(out)
         ELSE MapV(ApplyPatchItems(out, reqData.m[<<"d", "a", "t", "a">>].l))

\* info.FullMethod split by "/" (part_003:105)
MethodParts(method) == Split(method, "/")
\* the first dotted segment of the lowercased service name (part_003:111-112)
DomainOf(method) == Split(ToLower(MethodParts(method)[2]), ".")[1]
MethodNameOf(method) == MethodParts(method)[3]

\* The calls the closure hands straight to the handler: the no-op interceptor
\* of a disabled configuration, a path of fewer than three parts, or a
\* method shouldLogMethod rejects.
Bypasses(c, method) ==
    IF ~c.Enabled \/ ~c.HasRepository THEN TRUE
    ELSE IF Len(MethodParts(method)) < 3 THEN TRUE
    ELSE ~shouldLogMethod(c, DomainOf(method), MethodNameOf(method))

\* Bypasses for every configuration and method of the model
BypassOf == [c \in InterceptorConfigs |-> [method \in FullMethods |-> Bypasses(c, method)]]

\* A switch without its CREATE case: the request stays in ChangeData
BeforeDataKept(operation, reqData) ==
    IF operation \in {"PATCH", "RESCHEDULE"} THEN normalizePatchChangeData(reqData)
    ELSE reqData

\* The switch on the operation (part_003:164-175)
BeforeDataFor(operation, reqData) ==
    CASE operation = "CREATE" -> NilV
      [] operation \in {"PATCH", "RESCHEDULE"} -> normalizePatchChangeData(reqData)
      [] OTHER -> reqData

AfterDataFor(operation, respData) ==
    IF operation = "DELETE" THEN NilV ELSE respData

\* "Sanitize sensitive fields" (part_003:210-217)
SanitizeAuditLog(c, auditLog, domain, entity) ==
    IF c.HasSanitizer /\ auditLog.AfterData.t # "nil"
    THEN LET i == GetEntity(c.Config, domain, entity) IN
         IF i # 0
         THEN LET entityCfg == c.Config.Entities[i] IN
              [auditLog EXCEPT
                 !.AfterData = SanitizeMap(auditLog.AfterData, entityCfg.ExcludedFields,
                                           entityCfg.SensitiveFields),
                 !.ChangeData = SanitizeMap(auditLog.ChangeData, entityCfg.ExcludedFields,
                                            entityCfg.SensitiveFields)]
         ELSE auditLog
    ELSE auditLog

\* The DataChangeLog of a call (part_003:177-217); id stands for uuid.New()
NewAuditLog(c, id, method, reqData, respData, primaryKey) ==
    LET domain == DomainOf(method)
        methodName == MethodNameOf(method)
        entity == capitalizeFirstLetter(domain)
        operation == inferOperation(methodName)
    IN  SanitizeAuditLog(c,
            [ID |-> id,
             Domain |-> domain,
             Entity |-> methodName,
             Operation |-> operation,
             PrimaryKey |-> parsePrimaryKey(primaryKey),
             PrimaryKeyStr |-> primaryKey,
             ChangeData |-> BeforeDataFor(operation, reqData),
             AfterData |-> AfterDataFor(operation, respData),
             Method |-> methodName],
            domain, entity)

\* A closure without the check of the handler's error
HandlerNeverFailed(err) == FALSE

\* if err != nil { return resp, err } (part_003:141-143)
HandlerFailed(err) == err # NoErr

\* A closure without the check of the empty primary key
PrimaryKeyNeverMissing(primaryKey) == FALSE

\* if primaryKey == "" { return resp, err } (part_003:160-162)
PrimaryKeyMissing(primaryKey) == primaryKey = <<>>

\* The events a call emits once the handler has returned (resp, err): none
\* or one.
EmittedLogs(c, id, cl, resp, err) ==
    IF cl.bypass \/ HandlerFailed(err) THEN {}
    ELSE LET respData == IF c.IncludePayload /\ resp.t # "nil"
                         THEN protoToMap(resp) ELSE NilV
             primaryKey == extractPrimaryKey(c, DomainOf(cl.method),
                                             MethodNameOf(cl.method), cl.req, resp)
         IN  IF PrimaryKeyMissing(primaryKey) THEN {}
             ELSE {NewAuditLog(c, id, cl.method, cl.reqData, respData, primaryKey)}

\* A closure that returns the masked copy of the response of an audited call
InterceptorReturnMasked(c, cl, resp, err) ==
    [resp |-> IF cl.bypass THEN resp
              ELSE SanitizeMap(protoToMap(resp), <<>>, <<<<"s", "s", "n">>>>),
     err |-> err]

\* What the closure returns for a handler result: every return statement
\* of the closure returns the handler's resp and err.
InterceptorReturn(c, cl, resp, err) == [resp |-> resp, err |-> err]

-----------------------------------------------------------------------------
(* The interceptor: one unary call after the other through the closure,   *)
(* and the goroutines that call Repository.Save                           *)

NoCall == [method |-> <<>>, req |-> NilV, bypass |-> TRUE, reqData |-> NilV, ctxDone |-> FALSE]
NoReturn == [resp |-> NilV, err |-> NoErr]

\* The closure runs up to the call of the handler (part_003:100-140).
Invoke(method, req) ==
    /\ callPc \in {"idle", "returned"}
    /\ nCalls < MaxCalls
    /\ nCalls' = nCalls + 1
    /\ LET bypass == BypassOf[cfg][method] IN
       call' = [method |-> method,
                req |-> req,
                bypass |-> bypass,
                reqData |-> IF ~bypass /\ cfg.IncludePayload
                            THEN protoToMap(req) ELSE NilV,
                ctxDone |-> FALSE]
    /\ callPc' = "handler"
    /\ ret' = NoReturn
    /\ hret' = NoReturn
    /\ UNCHANGED <<cfg, saveTasks, logs, saveErrs, bvars, pvars>>

\* The handler returns (resp, err) and the closure runs to its return
\* (part_003:140-229), spawning the Save goroutine when it emits an event.
HandlerReturn(resp, err) ==
    /\ callPc = "handler"
    /\ hret' = [resp |-> resp, err |-> err]
    /\ ret' = InterceptorReturn(cfg, call, resp, err)
    /\ saveTasks' = saveTasks \cup EmittedLogs(cfg, nCalls, call, resp, err)
    /\ callPc' = "returned"
    /\ UNCHANGED <<cfg, nCalls, call, logs, saveErrs, bvars, pvars>>

\* The context of the RPC is cancelled, the closure having returned, while
\* a Save goroutine runs: saveCtx is derived from context.Background()
\* (part_003:221), so nothing of the goroutine changes.
CancelContext ==
    /\ callPc = "returned"
    /\ saveTasks # {}
    /\ ~call.ctxDone
    /\ call' = [call EXCEPT !.ctxDone = TRUE]
    /\ UNCHANGED <<cfg, nCalls, callPc, ret, hret, saveTasks, logs, saveErrs, bvars, pvars>>

\* A Save that runs under the context of the RPC: it cannot succeed once
\* that context is cancelled
SaveOkUnderCallContext(log) ==
    /\ log \in saveTasks
    /\ ~call.ctxDone
    /\ saveTasks' = saveTasks \ {log}
    /\ logs' = (log.ID :> log) @@ logs
    /\ UNCHANGED <<cfg, nCalls, callPc, call, ret, hret, saveErrs, bvars, pvars>>

\* Repository.Save returns nil: the log is stored under its ID
\* (MockElasticsearchRepository.Save; saveDirect indexes it by DocumentID).
SaveOk(log) ==
    /\ log \in saveTasks
    /\ saveTasks' = saveTasks \ {log}
    /\ logs' = (log.ID :> log) @@ logs
    /\ UNCHANGED <<cfg, nCalls, callPc, call, ret, hret, saveErrs, bvars, pvars>>

\* Repository.Save returns an error (the store is down, or the 5 s context
\* expired): the goroutine prints it and ends.
SaveFail(log) ==
    /\ log \in saveTasks
    /\ saveTasks' = saveTasks \ {log}
    /\ saveErrs' = saveErrs \cup {log.ID}
    /\ UNCHANGED <<cfg, nCalls, callPc, call, ret, hret, logs, bvars, pvars>>

-----------------------------------------------------------------------------
(* BulkIndexWriter *)

Closers == {1, 2}

\* make(chan *DataChangeLog, batchSize*2)
QueueCap == 2 * batchSize

\* A select without its default case: no case can proceed on a full queue
\* of a writer that is not stopped
WriteReadyNoDefault(q, stopped, cap) ==
    (IF Len(q) < cap THEN {"send"} ELSE {}) \cup (IF stopped THEN {"stop"} ELSE {})

\* The cases of the select in Write that can proceed; default runs only
\* when no other case can, and Go picks among several ready cases at random.
WriteReady(q, stopped, cap) ==
    LET comm == (IF Len(q) < cap THEN {"send"} ELSE {})
                    \cup (IF stopped THEN {"stop"} ELSE {})
    IN  IF comm = {} THEN {"default"} ELSE comm

\* The error of each case of the select in Write
WriteResult(case) ==
    CASE case = "send" -> "ok"
      [] case = "stop" -> "stopped"
      [] OTHER -> "full"

\* Write(log) with the next event: the select runs one of its ready cases
\* and Write returns that case's error.
Write ==
    /\ ~panicked
    /\ nWrites < MaxWrites
    /\ nWrites' = nWrites + 1
    /\ \E case \in WriteReady(queue, stopClosed, QueueCap) :
          /\ queue' = IF case = "send" THEN Append(queue, nWrites + 1) ELSE queue
          /\ writer' = [last |-> WriteResult(case)]
          /\ outcome' = ((nWrites + 1) :> (WriteResult(case) = "ok")) @@ outcome
    /\ UNCHANGED <<stopClosed, status, batchSize, workers, closers,
                   closeMark, handed, nStored, nFailed, panicked, ivars, pvars>>

\* handed after one more call of saveBatchDirect with batch
Hand(h, batch) ==
    [e \in (DOMAIN h) \cup {batch[i] : i \in DOMAIN batch} |->
        (IF e \in DOMAIN h THEN h[e] ELSE 0)
            + Cardinality({i \in DOMAIN batch : batch[i] = e})]

\* The bag of workers after one worker moves from state w to state v
Move(w, v) == (workers (-) SetToBag({w})) (+) SetToBag({v})

\* A receive case that flushes only once the batch exceeds batchSize
WorkerRecvFlushLate(w) ==
    /\ ~panicked
    /\ w.pc = "select"
    /\ Len(queue) > 0
    /\ queue' = Tail(queue)
    /\ status' = [status EXCEPT !.QueueSize = Len(queue) - 1]
    /\ LET batch == Append(w.batch, Head(queue)) IN
       IF Len(batch) > batchSize
       THEN /\ workers' = Move(w, [pc |-> "saveFull", batch |-> batch])
            /\ handed' = Hand(handed, batch)
       ELSE /\ workers' = Move(w, [pc |-> "select", batch |-> batch])
            /\ handed' = handed
    /\ UNCHANGED <<stopClosed, batchSize, writer, closers, nWrites, outcome,
                   closeMark, nStored, nFailed, panicked, ivars, pvars>>

\* case log := <-b.queue: append to the batch; a full batch goes to
\* saveBatchDirect.
WorkerRecv(w) ==
    /\ ~panicked
    /\ w.pc = "select"
    /\ Len(queue) > 0
    /\ queue' = Tail(queue)
    /\ status' = [status EXCEPT !.QueueSize = Len(queue) - 1]
    /\ LET batch == Append(w.batch, Head(queue)) IN
       IF Len(batch) >= batchSize
       THEN /\ workers' = Move(w, [pc |-> "saveFull", batch |-> batch])
            /\ handed' = Hand(handed, batch)
       ELSE /\ workers' = Move(w, [pc |-> "select", batch |-> batch])
            /\ handed' = handed
    /\ UNCHANGED <<stopClosed, batchSize, writer, closers, nWrites, outcome,
                   closeMark, nStored, nFailed, panicked, ivars, pvars>>

\* A ticker case that flushes only a batch that is full
WorkerTickFullOnly(w) ==
    /\ ~panicked
    /\ w.pc = "select"
    /\ Len(w.batch) >= batchSize
    /\ workers' = Move(w, [w EXCEPT !.pc = "saveTick"])
    /\ handed' = Hand(handed, w.batch)
    /\ UNCHANGED <<queue, stopClosed, status, batchSize, writer, closers, nWrites,
                   outcome, closeMark, nStored, nFailed, panicked, ivars, pvars>>

\* case <-ticker.C with a non-empty batch
WorkerTick(w) ==
    /\ ~panicked
    /\ w.pc = "select"
    /\ Len(w.batch) > 0
    /\ workers' = Move(w, [w EXCEPT !.pc = "saveTick"])
    /\ handed' = Hand(handed, w.batch)
    /\ UNCHANGED <<queue, stopClosed, status, batchSize, writer, closers, nWrites,
                   outcome, closeMark, nStored, nFailed, panicked, ivars, pvars>>

\* case <-b.stopChan: flush what the batch holds, then return
WorkerStop(w) ==
    /\ ~panicked
    /\ w.pc = "select"
    /\ stopClosed
    /\ IF Len(w.batch) > 0
       THEN /\ workers' = Move(w, [w EXCEPT !.pc = "saveStop"])
            /\ handed' = Hand(handed, w.batch)
       ELSE /\ workers' = Move(w, [w EXCEPT !.pc = "done"])
            /\ handed' = handed
    /\ UNCHANGED <<queue, stopClosed, status, batchSize, writer, closers, nWrites,
                   outcome, closeMark, nStored, nFailed, panicked, ivars, pvars>>

\* The status update after a flush of the batch-full and ticker cases
\* (part_002:803-806 and 818-821); the worker ignores saveBatchDirect's error.
CountFlush(st, batch, stored) ==
    [st EXCEPT !.ProcessedCount = @ + Len(batch)]

\* A worker that does not replace its batch by a new one after a flush
SaveBatchReturnKeepsBatch(w, stored) ==
    /\ ~panicked
    /\ w.pc \in {"saveFull", "saveTick", "saveStop"}
    /\ nStored' = IF stored THEN nStored + Len(w.batch) ELSE nStored
    /\ nFailed' = IF stored THEN nFailed ELSE nFailed + Len(w.batch)
    /\ IF w.pc = "saveStop"
       THEN /\ workers' = Move(w, [pc |-> "done", batch |-> <<>>])
            /\ status' = status
       ELSE /\ workers' = Move(w, [pc |-> "select", batch |-> w.batch])
            /\ status' = CountFlush(status, w.batch, stored)
    /\ UNCHANGED <<queue, stopClosed, batchSize, writer, closers, nWrites, outcome,
                   closeMark, handed, panicked, ivars, pvars>>

\* saveBatchDirect returns: the bulk request indexed the batch (stored) or
\* failed.  Until this step the worker is stalled inside the store call.
\* After the stop-case flush the worker returns; its batch is dropped with it.
SaveBatchReturn(w, stored) ==
    /\ ~panicked
    /\ w.pc \in {"saveFull", "saveTick", "saveStop"}
    /\ nStored' = IF stored THEN nStored + Len(w.batch) ELSE nStored
    /\ nFailed' = IF stored THEN nFailed ELSE nFailed + Len(w.batch)
    /\ IF w.pc = "saveStop"
       THEN /\ workers' = Move(w, [pc |-> "done", batch |-> <<>>])
            /\ status' = status
       ELSE /\ workers' = Move(w, [pc |-> "select", batch |-> <<>>])
            /\ status' = CountFlush(status, w.batch, stored)
    /\ UNCHANGED <<queue, stopClosed, batchSize, writer, closers, nWrites, outcome,
                   closeMark, handed, panicked, ivars, pvars>>

\* Callers of Close and Flush are interchangeable: caller c starts once the
\* callers before it have.
MayStart(c) ==
    /\ closers[c].pc = "idle"
    /\ \A d \in Closers : d < c => closers[d].pc # "idle"

\* Close: IsRunning = false under the mutex, then Flush
CloseCall(c) ==
    /\ ~panicked
    /\ MayStart(c)
    /\ closers' = [closers EXCEPT ![c] = [op |-> "Close", pc |-> "flush"]]
    /\ status' = [status EXCEPT !.IsRunning = FALSE]
    /\ closeMark' = IF closeMark = -1 THEN nWrites ELSE closeMark
    /\ UNCHANGED <<queue, stopClosed, batchSize, workers, writer, nWrites, outcome,
                   handed, nStored, nFailed, panicked, ivars, pvars>>

\* Flush called directly
FlushCall(c) ==
    /\ ~panicked
    /\ MayStart(c)
    /\ closers' = [closers EXCEPT ![c] = [op |-> "Flush", pc |-> "flush"]]
    /\ UNCHANGED <<queue, stopClosed, status, batchSize, workers, writer, nWrites,
                   outcome, closeMark, handed, nStored, nFailed, panicked, ivars, pvars>>

\* close(b.stopChan): closing a closed channel panics
FlushSignal(c) ==
    /\ ~panicked
    /\ closers[c].pc = "flush"
    /\ IF stopClosed
       THEN /\ panicked' = TRUE
            /\ UNCHANGED <<stopClosed, closers>>
       ELSE /\ stopClosed' = TRUE
            /\ closers' = [closers EXCEPT ![c].pc = "wait"]
            /\ panicked' = FALSE
    /\ UNCHANGED <<queue, status, batchSize, workers, writer, nWrites, outcome,
                   closeMark, handed, nStored, nFailed, ivars, pvars>>

\* b.wg.Wait() returns once every worker has returned
FlushReturn(c) ==
    /\ ~panicked
    /\ closers[c].pc = "wait"
    /\ \A w \in BagToSet(workers) : w.pc = "done"
    /\ closers' = [closers EXCEPT ![c].pc = "returned"]
    /\ UNCHANGED <<queue, stopClosed, status, batchSize, workers, writer, nWrites,
                   outcome, closeMark, handed, nStored, nFailed, panicked, ivars, pvars>>

-----------------------------------------------------------------------------
(* Specifications *)

\* No library call is under way
NoArg == [f |-> "none"]
InitLibrary ==
    /\ arg = NoArg
    /\ res = NoArg
    /\ repo = "mock"

InitInterceptor ==
    /\ nCalls = 0
    /\ callPc = "idle"
    /\ call = NoCall
    /\ ret = NoReturn
    /\ hret = NoReturn
    /\ saveTasks = {}
    /\ logs = <<>>
    /\ saveErrs = {}

\* NewBulkIndexWriter followed by Start(numWorkers)
InitWriter(sizes, counts) ==
    /\ batchSize \in sizes
    /\ \E n \in counts : workers = ([pc |-> "select", batch |-> <<>>] :> n)
    /\ queue = <<>>
    /\ stopClosed = FALSE
    /\ status = [IsRunning |-> TRUE, QueueSize |-> 0, ProcessedCount |-> 0, FailedCount |-> 0]
    /\ writer = [last |-> "ok"]
    /\ closers = [c \in Closers |-> [op |-> "none", pc |-> "idle"]]
    /\ nWrites = 0
    /\ outcome = <<>>
    /\ closeMark = -1
    /\ handed = <<>>
    /\ nStored = 0
    /\ nFailed = 0
    /\ panicked = FALSE

Init ==
    /\ cfg \in InterceptorConfigs
    /\ InitInterceptor
    /\ InitWriter({1}, {1})
    /\ InitLibrary

Next ==
    \/ \E method \in FullMethods, req \in Requests : Invoke(method, req)
    \/ \E resp \in Responses, err \in Errors : HandlerReturn(resp, err)
    \/ \E log \in saveTasks : SaveOk(log)
    \/ \E log \in saveTasks : SaveFail(log)
    \/ CancelContext

\* The interceptor in front of a repository
Spec == Init /\ [][Next]_vars

BulkInit ==
    /\ cfg = CfgFromFile
    /\ InitInterceptor
    /\ InitWriter(1..MaxBatchSize, 1..MaxWorkers)
    /\ InitLibrary

BulkNext ==
    \/ Write
    \/ \E w \in BagToSet(workers) : WorkerRecv(w)
    \/ \E w \in BagToSet(workers) : WorkerTick(w)
    \/ \E w \in BagToSet(workers) : WorkerStop(w)
    \/ \E w \in BagToSet(workers), stored \in BOOLEAN : SaveBatchReturn(w, stored)
    \/ \E c \in Closers : CloseCall(c)
    \/ \E c \in Closers : FlushCall(c)
    \/ \E c \in Closers : FlushSignal(c)
    \/ \E c \in Closers : FlushReturn(c)

\* The BulkIndexWriter with its producers, workers and closers
BulkSpec == BulkInit /\ [][BulkNext]_vars
-----------------------------------------------------------------------------
(* Properties of the interceptor, checked under Spec *)

Range(f) == {f[x] : x \in DOMAIN f}

\* The events handed to Repository.Save that are inside Save or stored
Emitted == saveTasks \cup Range(logs)

\* The events of the latest call
CallEvents == {l \in Emitted : l.ID = nCalls}

\* The latest call has handed nothing to Save: nothing is pending, stored
\* or failed under its id, and the queue of the bulk writer is as it was.
CallEmittedNothing ==
    /\ CallEvents = {}
    /\ nCalls \notin saveErrs
    /\ queue = <<>>

\* The latest call went through the audit path and its handler succeeded
AuditedCallReturned ==
    /\ callPc = "returned"
    /\ ~call.bypass
    /\ hret.err = NoErr

\* C1: the interceptor returns exactly the (response, error) pair of the
\* handler on every path: bypassed, handler failed, primary key missing,
\* event emitted; and whatever Save does afterwards (succeeds, fails, or
\* never returns) the returned pair stays the handler's.
C1_ReturnsHandlerResult == callPc = "returned" => ret = hret

\* A call that emitted an event has returned the handler's non-nil response
\* and its Save has failed.
C1_Witness ==
    /\ callPc = "returned"
    /\ nCalls \in saveErrs
    /\ hret.resp = RespFull
    /\ ret = hret

MergedData ==
    mergeMaps(IF call.req.t = "map" THEN call.req.m ELSE <<>>,
              IF hret.resp.t = "map" THEN hret.resp.m ELSE <<>>)

HasField(k) == k \in DOMAIN MergedData /\ MergedData[k].t # "nil"

\* The rule of the latest call's domain names a single key the merged data
\* lacks, or composite keys of which one is missing.
KeyAbsent ==
    LET pk == cfg.Config.Entities[EntityByDomain(cfg.Config, DomainOf(call.method))].PrimaryKey
    IN  IF pk.SingleKey # <<>> THEN ~HasField(pk.SingleKey)
        ELSE \E j \in DOMAIN pk.CompositeKeys : ~HasField(pk.CompositeKeys[j])

\* C3: every event handed to Save has a non-empty PrimaryKeyStr; a call
\* whose single key is absent from the merged request/response data, or
\* whose composite key misses a component, emits no event and leaves the
\* store and the queue as they were.
C3_EventsCarryPrimaryKey ==
    /\ \A l \in Emitted : l.PrimaryKeyStr # <<>>
    /\ (AuditedCallReturned /\ KeyAbsent) => CallEmittedNothing

\* A DELETE on the composite-key rule with one component missing has returned
C3_Witness ==
    /\ AuditedCallReturned
    /\ KeyAbsent
    /\ call.req = ReqPartKey
    /\ CallEmittedNothing
\* The values field k has in the payload of the latest call: in the
\* request, in the {field, value} items of a patch request, in the response
PatchValues(k) ==
    IF call.req.t = "map" /\ <<"d", "a", "t", "a">> \in DOMAIN call.req.m /\ call.req.m[<<"d", "a", "t", "a">>].t = "list"
    THEN LET items == call.req.m[<<"d", "a", "t", "a">>].l IN
         {items[i].m[<<"v", "a", "l", "u", "e">>] : i \in {j \in DOMAIN items : items[j].m[<<"f", "i", "e", "l", "d">>] = StrV(k)}}
    ELSE {}

RawValues(k) ==
    (IF call.req.t = "map" /\ k \in DOMAIN call.req.m THEN {call.req.m[k]} ELSE {})
        \cup PatchValues(k)
        \cup (IF hret.resp.t = "map" /\ k \in DOMAIN hret.resp.m THEN {hret.resp.m[k]} ELSE {})

\* One side of an event holds no field of excluded, and holds every field
\* of sensitive in masked form and not as the payload had it.
SideClean(data, excluded, sensitive) ==
    \A k \in Keys(data) :
        /\ ToLower(k) \notin LowerSet(excluded)
        /\ ToLower(k) \in LowerSet(sensitive) =>
              /\ data.m[k] \in {SanitizeValue(v) : v \in RawValues(k)}
              /\ data.m[k] \notin RawValues(k)

\* The rule of an event's domain
RuleOf(l) == cfg.Config.Entities[EntityByDomain(cfg.Config, l.Domain)]

\* C4: for every emitted event, whatever its operation, the sanitizer has
\* been applied to ChangeData and to AfterData: neither holds a field of
\* the rule's excluded set, and every field of the rule's sensitive set
\* holds its masked form, never its original value.
C4_BothSidesSanitized ==
    \A l \in CallEvents :
        /\ SideClean(l.ChangeData, RuleOf(l).ExcludedFields, RuleOf(l).SensitiveFields)
        /\ SideClean(l.AfterData, RuleOf(l).ExcludedFields, RuleOf(l).SensitiveFields)

\* C5: the excluded and sensitive sets applied to an event are the global
\* lists together with the rule's: a field listed only in
\* global.sensitive_fields is masked and a field listed only in
\* global.excluded_fields is absent, in every event of every rule.
C5_GlobalListsApplied ==
    \A l \in CallEvents :
        /\ SideClean(l.ChangeData, cfg.Config.Global.ExcludedFields,
                     cfg.Config.Global.SensitiveFields)
        /\ SideClean(l.AfterData, cfg.Config.Global.ExcludedFields,
                     cfg.Config.Global.SensitiveFields)

\* C10: a CREATE event has an empty ChangeData and a DELETE event has an
\* empty AfterData.
C10_CreateAndDeleteSides ==
    \A l \in Emitted :
        /\ l.Operation = "CREATE" => l.ChangeData = NilV
        /\ l.Operation = "DELETE" => l.AfterData = NilV

\* A CREATE event of a call with a request payload is stored with the
\* response as its AfterData.
C10_Witness ==
    \E l \in Range(logs) :
        /\ l.Operation = "CREATE"
        /\ l.ID = nCalls
        /\ call.reqData = ReqFull
        /\ l.AfterData.t = "map"
        /\ l.ChangeData = NilV
-----------------------------------------------------------------------------
(* Properties of the BulkIndexWriter, checked under BulkSpec *)

\* A call of Close has returned
CloseReturned == \E c \in Closers : closers[c] = [op |-> "Close", pc |-> "returned"]

\* The events Write accepted (it returned nil) and those it rejected
Accepted == {e \in DOMAIN outcome : outcome[e]}
Rejected == {e \in DOMAIN outcome : ~outcome[e]}

\* The events rejected at enqueue or discarded: refused by Write, lost in a
\* failed bulk request, or left in the queue
DroppedCount == Cardinality(Rejected) + nFailed + Len(queue)

\* One call of Write takes place in this step
WriteStep == nWrites' = nWrites + 1

\* C6: after K calls of Write followed by a Close that has returned,
\* processedCount + droppedCount = K.
C6_CountersAccountForWrites ==
    (CloseReturned /\ closeMark = nWrites) =>
        status.ProcessedCount + DroppedCount = nWrites

\* C7: when Close returns, every event a Write accepted before Close was
\* called has been handed to the store.
C7_CloseFlushesAccepted ==
    CloseReturned =>
        \A e \in 1..closeMark : e \in Accepted => e \in DOMAIN handed

\* C8: once Close has returned, every later Write returns an error and adds
\* nothing to the queue.
C8_WriteAfterCloseRejected ==
    [][(CloseReturned /\ WriteStep) => (writer'.last # "ok" /\ queue' = queue)]_vars

\* The select of Write always has a case that can proceed
WriteCanProceed == WriteReady(queue, stopClosed, QueueCap) # {}

\* C9 as stated: Write never blocks, and on a queue at capacity it returns
\* the queue-full error and leaves the queue unchanged.
C9_FullQueueGivesQueueFull ==
    /\ []WriteCanProceed
    /\ [][(WriteStep /\ Len(queue) = QueueCap) =>
            (writer'.last = "full" /\ queue' = queue)]_vars

\* C9 amended: Write never blocks, and on a queue at capacity it returns an
\* error and leaves the queue unchanged; the error is the queue-full error
\* while the stop channel is open and the stopped error once it is closed.
C9_FullQueueGivesError ==
    /\ []WriteCanProceed
    /\ [][(WriteStep /\ Len(queue) = QueueCap) =>
            /\ writer'.last = (IF stopClosed THEN "stopped" ELSE "full")
            /\ queue' = queue]_vars

\* A Write on a running writer found the queue at capacity and was refused
C9_Witness ==
    /\ nWrites > 0
    /\ ~outcome[nWrites]
    /\ writer.last = "full"
    /\ Len(queue) = QueueCap
    /\ ~stopClosed
-----------------------------------------------------------------------------
(* inferOperation called on its own, checked under InferSpec *)

\* The words method names are built from
NameWords ==
    { <<"C", "r", "e", "a", "t", "e">>, <<"A", "D", "D">>, <<"i", "n", "s", "e", "r", "t">>, <<"D", "e", "l", "e", "t", "e">>, <<"R", "e", "m", "o", "v", "e">>, <<"V", "o", "i", "d">>, <<"P", "a", "t", "c", "h">>, <<"R", "e", "s", "c", "h", "e", "d", "u", "l", "e">>,
      <<"U", "p", "d", "a", "t", "e">>, <<"M", "o", "d", "i", "f", "y">>, <<"E", "d", "i", "t">>, <<"G", "e", "t">>, <<"X">> }

\* The method names of at most n words
RECURSIVE NamesUpTo(_)
NamesUpTo(n) ==
    IF n = 0 THEN {<<>>}
    ELSE LET shorter == NamesUpTo(n - 1) IN
         shorter \cup {a \o w : a \in shorter, w \in NameWords}

MethodNames == NamesUpTo(MaxWords)

InferInit ==
    /\ cfg = CfgFromFile
    /\ InitInterceptor
    /\ InitWriter({1}, {1})
    /\ arg \in {[f |-> "inferOperation", methodName |-> n] : n \in MethodNames}
    /\ res = NoArg
    /\ repo = "mock"

\* operation := inferOperation(methodName)
CallInferOperation ==
    /\ arg.f = "inferOperation"
    /\ res = NoArg
    /\ res' = [v |-> inferOperation(arg.methodName)]
    /\ UNCHANGED <<arg, repo, ivars, bvars>>

InferSpec == InferInit /\ [][CallInferOperation]_vars

\* The classes of the operation table, in priority order
OperationClasses ==
    << [words |-> {<<"c", "r", "e", "a", "t", "e">>, <<"a", "d", "d">>, <<"i", "n", "s", "e", "r", "t">>}, op |-> "CREATE"],
       [words |-> {<<"d", "e", "l", "e", "t", "e">>, <<"r", "e", "m", "o", "v", "e">>}, op |-> "DELETE"],
       [words |-> {<<"v", "o", "i", "d">>}, op |-> "VOID"],
       [words |-> {<<"p", "a", "t", "c", "h">>}, op |-> "PATCH"],
       [words |-> {<<"r", "e", "s", "c", "h", "e", "d", "u", "l", "e">>}, op |-> "RESCHEDULE"],
       [words |-> {<<"u", "p", "d", "a", "t", "e">>, <<"m", "o", "d", "i", "f", "y">>, <<"e", "d", "i", "t">>}, op |-> "UPDATE"] >>

\* w occurs in s at some position, letter case ignored
OccursIn(w, s) ==
    \E i \in 1..(Len(s) - Len(w) + 1) :
        \A j \in 1..Len(w) : ToLowerChar(s[i + j - 1]) = ToLowerChar(w[j])

MatchingClasses(name) ==
    {i \in DOMAIN OperationClasses : \E w \in OperationClasses[i].words : OccursIn(w, name)}

\* C11: inferOperation maps a method name, case-insensitively and by
\* substring, to the first matching class of the table, to OTHER when no
\* class matches, and to the earliest class when several match.
C11_FirstMatchingClass ==
    (arg.f = "inferOperation" /\ res # NoArg) =>
        LET hits == MatchingClasses(arg.methodName) IN
        IF hits = {} THEN res.v = "OTHER"
        ELSE \E i \in hits : /\ \A j \in hits : i <= j
                             /\ res.v = OperationClasses[i].op

\* A name in mixed case that matches two classes, the later one first in
\* the text, has been mapped
C11_Witness ==
    /\ arg.f = "inferOperation"
    /\ res # NoArg
    /\ arg.methodName = <<"U", "p", "d", "a", "t", "e">> \o <<"A", "D", "D">>
    /\ res.v = "CREATE"
-----------------------------------------------------------------------------
(* Which methods the interceptor audits, checked under Spec *)

\* The latest call is of a method whose domain has a rule that is enabled
\* and lists the inferred operation, with auditing enabled globally.
MethodIsAudited ==
    /\ cfg.Enabled
    /\ cfg.HasConfig
    /\ cfg.Config.Global.Enabled
    /\ Len(MethodParts(call.method)) >= 3
    /\ LET i == EntityByDomain(cfg.Config, DomainOf(call.method)) IN
       /\ i # 0
       /\ cfg.Config.Entities[i].Enabled
       /\ inferOperation(MethodNameOf(call.method)) \in cfg.Config.Entities[i].Operations

\* C12: the interceptor emits an event only for a method whose domain has
\* a configured rule that is enabled and lists the inferred operation; for
\* every other method (no rule, rule disabled, operation not listed,
\* auditing globally disabled) it emits nothing.
C12_OnlyAuditedMethodsEmit ==
    (callPc = "returned" /\ ~MethodIsAudited) => CallEmittedNothing
-----------------------------------------------------------------------------
(* Sanitizer.SanitizeMap called on its own, checked under SanitizeSpec *)

TreeKeys == {<<"T", "m", "p">>, <<"a">>}

\* The document trees of at most n levels: a string, a map of one key, or
\* a list of one element
RECURSIVE Trees(_)
Trees(n) ==
    IF n = 0 THEN {StrV(<<"v">>)}
    ELSE LET sub == Trees(n - 1) IN
         {StrV(<<"v">>)} \cup {MapV(k :> t) : k \in TreeKeys, t \in sub}
                     \cup {ListV(<<t>>) : t \in sub}

\* The maps of exactly the form SanitizeMap takes: a map at the root
Documents == {MapV(k :> t) : k \in TreeKeys, t \in Trees(MaxDepth - 1)}

ExcludedLists == {<<<<"t", "m", "p">>>>, <<<<"T", "M", "P">>>>}

SanitizeInit ==
    /\ cfg = CfgFromFile
    /\ InitInterceptor
    /\ InitWriter({1}, {1})
    /\ arg \in {[f |-> "SanitizeMap", data |-> d, excludedFields |-> e, sensitiveFields |-> <<>>] :
                   d \in Documents, e \in ExcludedLists}
    /\ res = NoArg
    /\ repo = "mock"

\* s.SanitizeMap(data, excludedFields, sensitiveFields)
CallSanitizeMap ==
    /\ arg.f = "SanitizeMap"
    /\ res = NoArg
    /\ res' = [v |-> SanitizeMap(arg.data, arg.excludedFields, arg.sensitiveFields)]
    /\ UNCHANGED <<arg, repo, ivars, bvars>>

SanitizeSpec == SanitizeInit /\ [][CallSanitizeMap]_vars

\* No map of the tree, at any depth of maps and lists, has a key that
\* matches an excluded name when letter case is ignored
RECURSIVE NoExcludedKey(_, _)
NoExcludedKey(tree, excluded) ==
    CASE tree.t = "map" ->
            \A k \in DOMAIN tree.m :
                /\ ToLower(k) \notin {ToLower(excluded[i]) : i \in DOMAIN excluded}
                /\ NoExcludedKey(tree.m[k], excluded)
      [] tree.t = "list" -> \A i \in DOMAIN tree.l : NoExcludedKey(tree.l[i], excluded)
      [] OTHER -> TRUE

\* C13: for any document tree and any excluded set, the output of
\* SanitizeMap contains no key that matches an excluded field name
\* case-insensitively, at any nesting depth of maps and lists.
C13_NoExcludedKeyAtAnyDepth ==
    (arg.f = "SanitizeMap" /\ res # NoArg) => NoExcludedKey(res.v, arg.excludedFields)
-----------------------------------------------------------------------------
(* Sanitizer.SanitizeValue called on its own, checked under MaskSpec *)

\* The text of length n that spells the alphabet, over and over
Text(n) == [i \in 1..n |-> LowerChars[((i - 1) % 26) + 1]]

\* The values of a sensitive field: strings and byte slices of every
\* length up to MaxLen, a number, a map, a list, and nil
SensitiveValues ==
    {StrV(Text(n)) : n \in 0..MaxLen} \cup {BytesV(Text(n)) : n \in 0..MaxLen}
        \cup {NumV(<<"7">>), EmptyMap, ListV(<<StrV(<<"v">>)>>), NilV}

MaskInit ==
    /\ cfg = CfgFromFile
    /\ InitInterceptor
    /\ InitWriter({1}, {1})
    /\ arg \in {[f |-> "SanitizeValue", value |-> v] : v \in SensitiveValues}
    /\ res = NoArg
    /\ repo = "mock"

\* s.SanitizeValue(value)
CallSanitizeValue ==
    /\ arg.f = "SanitizeValue"
    /\ res = NoArg
    /\ res' = [v |-> SanitizeValue(arg.value)]
    /\ UNCHANGED <<arg, repo, ivars, bvars>>

MaskSpec == MaskInit /\ [][CallSanitizeValue]_vars

\* The number of visible characters of a text of length n: max(2, ceil(0.2 * n))
VisibleCount(n) ==
    LET c == CHOOSE k \in 0..n : 5 * k >= n /\ 5 * (k - 1) < n
    IN  IF c < 2 THEN 2 ELSE c

\* out is the mask of the text s: as long as s, all stars for a length up
\* to 4, otherwise the first floor(v/2) and the last v - floor(v/2)
\* characters of s with stars between them
IsMaskOf(out, s) ==
    LET n == Len(s)
        v == VisibleCount(n)
        p == v \div 2
    IN  /\ out.t = "str"
        /\ Len(out.s) = n
        /\ \A i \in 1..n :
              out.s[i] = IF n > 4 /\ (i <= p \/ i > n - (v - p)) THEN s[i] ELSE "*"

MaskedAsText ==
    /\ arg.value.t = "str" => IsMaskOf(res.v, arg.value.s)
    /\ arg.value.t = "bytes" => IsMaskOf(res.v, arg.value.b)

-----------------------------------------------------------------------------
(* Config.GetIndexName called on its own, checked under IndexSpec *)

\* strings.ReplaceAll(s, old, new) for a non-empty old
RECURSIVE ReplaceAll(_, _, _)
ReplaceAll(s, old, new) ==
    IF Len(s) < Len(old) THEN s
    ELSE IF SubSeq(s, 1, Len(old)) = old
         THEN new \o ReplaceAll(SubSeq(s, Len(old) + 1, Len(s)), old, new)
         ELSE <<s[1]>> \o ReplaceAll(Tail(s), old, new)

\* replacePattern: replace until the pattern no longer changes
RECURSIVE replacePattern(_, _, _)
replacePattern(pattern, placeholder, replacement) ==
    LET next == ReplaceAll(pattern, placeholder, replacement)
    IN  IF pattern # next THEN replacePattern(next, placeholder, replacement)
        ELSE pattern

\* fmt.Sprintf("%0<width>d", n) for n >= 0
RECURSIVE Sprintf0(_, _)
Sprintf0(width, n) ==
    LET digit == <<"0", "1", "2", "3", "4", "5", "6", "7", "8", "9">>[(n % 10) + 1]
    IN  IF n < 10 /\ width <= 1 THEN <<digit>>
        ELSE Sprintf0(width - 1, n \div 10) \o <<digit>>

\* c.GetIndexName(domain, timestamp)
GetIndexName(c, domain, timestamp) ==
    LET p1 == replacePattern(c.Elasticsearch.IndexPattern, <<"{", "p", "r", "e", "f", "i", "x", "}">>, c.Elasticsearch.IndexPrefix)
        p2 == replacePattern(p1, <<"{", "d", "o", "m", "a", "i", "n", "}">>, domain)
        p3 == replacePattern(p2, <<"{", "y", "y", "y", "y", "}">>, Sprintf0(4, timestamp.Year))
        p4 == replacePattern(p3, <<"{", "M", "M", "}">>, Sprintf0(2, timestamp.Month))
    IN  replacePattern(p4, <<"{", "d", "d", "}">>, Sprintf0(2, timestamp.Day))

\* The default pattern of setDefaults, the pattern of the quick start, and
\* every pattern of up to n words, a word being a placeholder or a separator
DefaultIndexPattern == <<"{", "p", "r", "e", "f", "i", "x", "}", "-", "{", "d", "o", "m", "a", "i", "n", "}", "-", "{", "y", "y", "y", "y", ".", "M", "M", "}">>

RECURSIVE IndexPatterns(_)
IndexPatterns(n) ==
    IF n = 0 THEN {<<>>, DefaultIndexPattern, <<"{", "p", "r", "e", "f", "i", "x", "}", "-", "{", "d", "o", "m", "a", "i", "n", "}", "-", "{", "y", "y", "y", "y", ".", "M", "M", ".", "d", "d", "}">>}
    ELSE IndexPatterns(n - 1) \cup
         {p \o w : p \in IndexPatterns(n - 1) \ {DefaultIndexPattern, <<"{", "p", "r", "e", "f", "i", "x", "}", "-", "{", "d", "o", "m", "a", "i", "n", "}", "-", "{", "y", "y", "y", "y", ".", "M", "M", ".", "d", "d", "}">>},
                   w \in {<<"{", "p", "r", "e", "f", "i", "x", "}">>, <<"{", "d", "o", "m", "a", "i", "n", "}">>, <<"{", "y", "y", "y", "y", "}">>, <<"{", "M", "M", "}">>, <<"{", "d", "d", "}">>, <<"-">>, <<".">>}}

\* The arguments of GetIndexName: a configuration whose prefix is the
\* default of setDefaults, a domain, and a date
IndexInit ==
    /\ cfg = CfgFromFile
    /\ InitInterceptor
    /\ InitWriter({1}, {1})
    /\ arg \in {[f |-> "GetIndexName",
                 c |-> [Elasticsearch |-> [IndexPrefix |-> <<"a", "u", "d", "i", "t", "-", "l", "o", "g">>, IndexPattern |-> p]],
                 domain |-> d, timestamp |-> t] :
                    p \in IndexPatterns(MaxWords), d \in {<<"a", "p", "t">>, <<"p", "a", "t">>},
                    t \in {[Year |-> 2026, Month |-> 11, Day |-> 6],
                           [Year |-> 987, Month |-> 2, Day |-> 28]}}
    /\ res = NoArg
    /\ repo = "mock"

CallGetIndexName ==
    /\ arg.f = "GetIndexName"
    /\ res = NoArg
    /\ res' = [v |-> GetIndexName(arg.c, arg.domain, arg.timestamp)]
    /\ UNCHANGED <<arg, repo, ivars, bvars>>

IndexSpec == IndexInit /\ [][CallGetIndexName]_vars

\* A {...} placeholder is left in the name
HasPlaceholder(name) ==
    \E i \in 1..Len(name) : \E j \in (i + 1)..Len(name) : name[i] = "{" /\ name[j] = "}"

\* C15: the name GetIndexName returns holds no {...} placeholder, and
\* substituting in the name itself gives the same name.
C15_NoPlaceholderLeft ==
    (arg.f = "GetIndexName" /\ res # NoArg) =>
        /\ ~HasPlaceholder(res.v)
        /\ GetIndexName([arg.c EXCEPT !.Elasticsearch.IndexPattern = res.v],
                        arg.domain, arg.timestamp) = res.v
-----------------------------------------------------------------------------
(* LoadConfig and Config.Validate, checked under LoadSpec *)

\* c.Validate(): nil, or the error of the first check that fails
Validate(c) ==
    LET RuleError(entity) ==
            IF entity.Entity = <<>> THEN "entity name must be specified for all entities"
            ELSE IF entity.Domain = <<>> THEN "domain must be specified for entity"
            ELSE IF entity.PrimaryKey.SingleKey = <<>> /\ Len(entity.PrimaryKey.CompositeKeys) = 0
                 THEN "primary key configuration required for entity"
            ELSE IF entity.PrimaryKey.SingleKey # <<>> /\ Len(entity.PrimaryKey.CompositeKeys) > 0
                 THEN "only single_key or composite_keys can be specified, not both"
            ELSE "nil"
        Failing == {i \in 1..Len(c.Entities) : RuleError(c.Entities[i]) # "nil"}
    IN  IF ~c.Elasticsearch.Enabled THEN "nil"
        ELSE IF Len(c.Elasticsearch.Addresses) = 0
             THEN "elasticsearch addresses must be specified"
        ELSE IF c.Elasticsearch.Username = <<>> /\ c.Elasticsearch.APIKey = <<>>
             THEN "elasticsearch authentication required: username/password or api_key"
        ELSE IF Failing # {}
             THEN RuleError(c.Entities[CHOOSE i \in Failing : \A j \in Failing : i <= j])
        ELSE "nil"

\* LoadConfig(configYAML): the document is parsed over the defaults, none of
\* which is a field that Validate reads, and then validated
LoadConfig(configYAML) ==
    IF ~configYAML.Parses
    THEN [cfg |-> "nil", err |-> "failed to parse audit log config"]
    ELSE IF Validate(configYAML.Config) # "nil"
         THEN [cfg |-> "nil", err |-> "invalid audit log config"]
         ELSE [cfg |-> "set", err |-> "nil"]

\* The lists of up to n rules a document may hold, each field of a rule
\* given or left out
RECURSIVE RuleLists(_)
RuleLists(n) ==
    LET EntityRules ==
            [Entity : {<<>>, <<"A", "p", "t">>}, Domain : {<<>>, <<"a", "p", "t">>},
             PrimaryKey : [SingleKey : {<<>>, <<"i", "d">>},
                           CompositeKeys : {<<>>, <<<<"a">>, <<"b">>>>}]]
    IN  IF n = 0 THEN {<<>>}
        ELSE RuleLists(n - 1) \cup {Append(l, r) : l \in RuleLists(n - 1), r \in EntityRules}

\* The documents handed to LoadConfig: one that does not parse, and every
\* combination of the settings of the store with up to MaxRules rules
ConfigDocuments ==
    [Parses : BOOLEAN,
     Config : [Elasticsearch : [Enabled : BOOLEAN, Addresses : {<<>>, <<<<"h">>>>},
                                Username : {<<>>, <<"u">>}, Password : {<<>>, <<"p">>},
                                APIKey : {<<>>, <<"k">>}],
               Entities : RuleLists(MaxRules)]]

LoadInit ==
    /\ cfg = CfgFromFile
    /\ InitInterceptor
    /\ InitWriter({1}, {1})
    /\ arg \in {[f |-> "LoadConfig", configYAML |-> y] : y \in ConfigDocuments}
    /\ res = NoArg
    /\ repo = "mock"

CallLoadConfig ==
    /\ arg.f = "LoadConfig"
    /\ res = NoArg
    /\ res' = [v |-> LoadConfig(arg.configYAML)]
    /\ UNCHANGED <<arg, repo, ivars, bvars>>

LoadSpec == LoadInit /\ [][CallLoadConfig]_vars

\* The store is enabled without an address, or without username and
\* password and without an apiKey
StoreInvalid(c) ==
    /\ c.Elasticsearch.Enabled
    /\ \/ c.Elasticsearch.Addresses = <<>>
       \/ /\ ~(c.Elasticsearch.Username # <<>> /\ c.Elasticsearch.Password # <<>>)
          /\ c.Elasticsearch.APIKey = <<>>

\* Some rule lacks its domain or its entity, or has not exactly one of
\* single_key and composite_keys
RuleInvalid(c) ==
    \E i \in 1..Len(c.Entities) :
        LET r == c.Entities[i]
        IN  \/ r.Domain = <<>>
            \/ r.Entity = <<>>
            \/ (r.PrimaryKey.SingleKey # <<>>) <=> (r.PrimaryKey.CompositeKeys # <<>>)

\* C16: LoadConfig returns an error for every document whose store
\* settings are invalid and for every document that holds an invalid rule.
C16_InvalidConfigRejected ==
    (arg.f = "LoadConfig" /\ res # NoArg /\ arg.configYAML.Parses) =>
        ((StoreInvalid(arg.configYAML.Config) \/ RuleInvalid(arg.configYAML.Config))
            => res.v.err # "nil")
-----------------------------------------------------------------------------
(* The Repository: Save, Query and DeleteOlderThan, checked under RepoSpec *)

\* The i-th event handed to Save, its ID being i; a time is a number of
\* days, 0 being the zero time.Time
StoredEvent(i) ==
    [ID |-> i,
     Domain |-> <<<<"a", "p", "t">>, <<"p", "a", "t">>>>[(i % 2) + 1],
     Entity |-> <<<<"A", "p", "t">>, <<"L", "a", "b">>>>[((i \div 2) % 2) + 1],
     PrimaryKeyStr |-> <<<<"A", "1">>, <<"A", "2">>>>[((i \div 4) % 2) + 1],
     Operation |-> <<<<"C", "R", "E", "A", "T", "E">>, <<"U", "P", "D", "A", "T", "E">>, <<"D", "E", "L", "E", "T", "E">>>>[(i % 3) + 1],
     ChangedBy |-> <<<<"u", "1">>, <<"u", "2">>>>[((i \div 3) % 2) + 1],
     ChangeTimestamp |-> (i % MaxTime) + 1]

\* The queries handed to Query: no filter, one filter or all five set, each
\* date zero or set, and a page
Queries ==
    LET fields == {"Domain", "Entity", "PrimaryKeyStr", "Operation", "ChangedBy"}
        value == [Domain |-> <<"a", "p", "t">>, Entity |-> <<"A", "p", "t">>,
                  PrimaryKeyStr |-> <<"A", "1">>,
                  Operation |-> <<"C", "R", "E", "A", "T", "E">>,
                  ChangedBy |-> <<"u", "1">>]
        filter(set, f) == IF f \in set THEN value[f] ELSE <<>>
    IN  {[Domain |-> filter(set, "Domain"), Entity |-> filter(set, "Entity"),
          PrimaryKeyStr |-> filter(set, "PrimaryKeyStr"),
          Operation |-> filter(set, "Operation"), ChangedBy |-> filter(set, "ChangedBy"),
          StartDate |-> dates[1], EndDate |-> dates[2],
          Limit |-> limit, Offset |-> offset] :
            set \in {{}, fields} \cup {{f} : f \in fields},
            dates \in {0, 2} \X {0, 2}, limit \in 0..MaxLimit, offset \in {0, 1}}

\* m.matchesQuery(log, query)
matchesQuery(log, query) ==
    /\ ~(query.Domain # <<>> /\ log.Domain # query.Domain)
    /\ ~(query.Entity # <<>> /\ log.Entity # query.Entity)
    /\ ~(query.PrimaryKeyStr # <<>> /\ log.PrimaryKeyStr # query.PrimaryKeyStr)
    /\ ~(query.Operation # <<>> /\ log.Operation # query.Operation)
    /\ ~(query.ChangedBy # <<>> /\ log.ChangedBy # query.ChangedBy)
    /\ ~(query.StartDate # 0 /\ log.ChangeTimestamp < query.StartDate)
    /\ ~(query.EndDate # 0 /\ log.ChangeTimestamp > query.EndDate)

\* The orders in which a range over a Go map may visit the keys in S
RECURSIVE MapOrders(_)
MapOrders(S) ==
    IF S = {} THEN {<<>>}
    ELSE UNION {{<<id>> \o o : o \in MapOrders(S \ {id})} : id \in S}

\* Repository.Save(ctx, log) of a log with an ID returns nil: the log is
\* stored under its ID
Save(log) ==
    /\ arg' = [f |-> "Save", log |-> log]
    /\ logs' = (log.ID :> log) @@ logs
    /\ res' = [v |-> "nil"]
    /\ UNCHANGED <<repo, cfg, nCalls, callPc, call, ret, hret, saveTasks, saveErrs, bvars>>

\* MockElasticsearchRepository.Query(ctx, query): results is filled in the
\* order the range over m.logs visits the logs
Query(query) ==
    /\ repo = "mock"
    /\ arg' = [f |-> "Query", query |-> query]
    /\ \E order \in MapOrders({id \in DOMAIN logs : matchesQuery(logs[id], query)}) :
          LET results == [k \in 1..Len(order) |-> logs[order[k]]]
              total == Len(results)
              limit == IF query.Limit = 0 THEN 100 ELSE query.Limit
              offset == query.Offset
              start == IF offset > total THEN total ELSE offset
              end == IF offset + limit > total THEN total ELSE offset + limit
          IN  res' = [v |-> [Total |-> total, Limit |-> limit, Offset |-> offset,
                             Records |-> IF start < end THEN SubSeq(results, start + 1, end)
                                         ELSE <<>>]]
    /\ UNCHANGED <<repo, ivars, bvars>>

\* DeleteOlderThan(ctx, domain, entity, date). The mock deletes the logs of
\* exactly that domain and entity that are before date; the Elasticsearch
\* repository sends a delete by query whose must clauses are the range
\* lt date and, for a non-empty domain and a non-empty entity only, a term
\* on it, to the indices prefix-* or prefix-domain-*.
DeleteOlderThan(domain, entity, date) ==
    LET mockDeletes(log) ==
            log.Domain = domain /\ log.Entity = entity /\ log.ChangeTimestamp < date
        esDeletes(log) ==
            /\ log.ChangeTimestamp < date
            /\ domain # <<>> => log.Domain = domain
            /\ entity # <<>> => log.Entity = entity
        toDelete == {id \in DOMAIN logs :
                        IF repo = "mock" THEN mockDeletes(logs[id]) ELSE esDeletes(logs[id])}
    IN  /\ arg' = [f |-> "DeleteOlderThan", domain |-> domain, entity |-> entity, date |-> date]
        /\ logs' = [id \in (DOMAIN logs) \ toDelete |-> logs[id]]
        /\ res' = [v |-> "nil"]
        /\ UNCHANGED <<repo, cfg, nCalls, callPc, call, ret, hret, saveTasks, saveErrs, bvars>>

\* The events handed to Save
StoredEvents == {StoredEvent(i) : i \in 1..MaxLogs}

\* NewMockElasticsearchRepository or NewElasticsearchRepository: no log yet
RepoInit ==
    /\ cfg = CfgFromFile
    /\ InitInterceptor
    /\ InitWriter({1}, {1})
    /\ arg = NoArg
    /\ res = NoArg
    /\ repo \in {"mock", "elasticsearch"}

RepoNext ==
    \/ \E log \in StoredEvents : Save(log)
    \/ \E query \in Queries : Query(query)
    \/ \E domain \in {<<>>, <<"a", "p", "t">>, <<"p", "a", "t">>}, entity \in {<<>>, <<"A", "p", "t">>, <<"L", "a", "b">>}, date \in 1..(MaxTime + 1) :
          DeleteOlderThan(domain, entity, date)

RepoSpec == RepoInit /\ [][RepoNext]_vars

\* The stored events that equal every non-empty filter of the query and
\* whose time lies in the closed range of its dates
Selected(query) ==
    {id \in DOMAIN logs :
        /\ \A field \in {"Domain", "Entity", "PrimaryKeyStr", "Operation", "ChangedBy"} :
              query[field] # <<>> => logs[id][field] = query[field]
        /\ query.StartDate # 0 => logs[id].ChangeTimestamp >= query.StartDate
        /\ query.EndDate # 0 => logs[id].ChangeTimestamp <= query.EndDate}

\* The sequences that hold each selected event once, latest first
LatestFirst(query) ==
    {o \in MapOrders(Selected(query)) :
        \A k \in 1..(Len(o) - 1) :
            logs[o[k]].ChangeTimestamp >= logs[o[k + 1]].ChangeTimestamp}

\* C17: Total is the number of the selected events, and Records are the
\* positions offset .. offset+limit-1 of the selected events ordered by
\* timestamp descending.
C17_QueryReturnsLatestFirst ==
    arg.f = "Query" =>
        /\ res.v.Total = Cardinality(Selected(arg.query))
        /\ \E o \in LatestFirst(arg.query) :
              res.v.Records =
                  [k \in 1..(IF Len(o) < arg.query.Offset THEN 0
                             ELSE IF Len(o) < arg.query.Offset + arg.query.Limit
                                  THEN Len(o) - arg.query.Offset
                                  ELSE arg.query.Limit)
                      |-> logs[o[k + arg.query.Offset]]]

\* C18: a DeleteOlderThan(domain, entity, cutoff) removes every event of
\* that domain and entity whose timestamp is before cutoff, and leaves
\* every other event stored and unchanged.
C18_DeleteRemovesOnlyOlder ==
    [][arg'.f = "DeleteOlderThan" =>
          /\ DOMAIN logs' \subseteq DOMAIN logs
          /\ \A id \in DOMAIN logs :
                IF /\ logs[id].Domain = arg'.domain
                   /\ logs[id].Entity = arg'.entity
                   /\ logs[id].ChangeTimestamp < arg'.date
                THEN id \notin DOMAIN logs'
                ELSE id \in DOMAIN logs' /\ logs'[id] = logs[id]]_vars
-----------------------------------------------------------------------------
(* DiffCalculator.CalculateDiff called on its own, checked under DiffSpec *)

\* dc.isFieldExcluded(fieldName)
isFieldExcluded(dc, fieldName) ==
    \E i \in 1..Len(dc.excludedFields) : ToLower(dc.excludedFields[i]) = ToLower(fieldName)

\* dc.getFieldType(value)
getFieldType(value) ==
    CASE value.t = "nil" -> "null"
      [] value.t = "num" -> IF Contains(value.n, <<".">>) THEN "number" ELSE "integer"
      [] value.t = "str" -> "string"
      [] value.t = "list" -> "array"
      [] value.t = "map" -> "object"
      [] OTHER -> "[]uint8"

\* The a == b of valuesEqual panics: both values are given, and their
\* dynamic types are the same and not comparable
ComparePanics(a, b) ==
    a.t # "nil" /\ b.t # "nil" /\ a.t = b.t /\ a.t \in {"map", "list", "bytes"}

\* dc.valuesEqual(a, b), when the comparison does not panic
valuesEqual(a, b) ==
    IF a.t = "nil" /\ b.t = "nil" THEN TRUE
    ELSE IF a.t = "nil" \/ b.t = "nil" THEN FALSE
    ELSE IF a = b THEN TRUE
    ELSE Sprintf(a) = Sprintf(b)

\* dc.CalculateDiff(before, after), the loops visiting the keys of after in
\* the order afterKeys and the keys of before in the order beforeKeys
RECURSIVE CalculateDiff(_, _, _, _, _)
CalculateDiff(dc, before, after, afterKeys, beforeKeys) ==
    LET FieldDiff(key, typed, oldValue, newValue) ==
            <<[FieldName |-> key, FieldType |-> getFieldType(typed),
               OldValue |-> oldValue, NewValue |-> newValue, Sanitized |-> FALSE]>>
    IN  IF afterKeys # <<>>
        THEN LET key == Head(afterKeys)
                 rest == CalculateDiff(dc, before, after, Tail(afterKeys), beforeKeys)
             IN  IF isFieldExcluded(dc, key) THEN rest
                 ELSE IF before.t = "nil" \/ key \notin DOMAIN before.m
                      THEN FieldDiff(key, after.m[key], NilV, after.m[key]) \o rest
                 ELSE IF valuesEqual(before.m[key], after.m[key]) THEN rest
                 ELSE FieldDiff(key, after.m[key], before.m[key], after.m[key]) \o rest
        ELSE IF beforeKeys # <<>>
        THEN LET key == Head(beforeKeys)
                 rest == CalculateDiff(dc, before, after, <<>>, Tail(beforeKeys))
             IN  IF isFieldExcluded(dc, key) \/ key \in Keys(after) THEN rest
                 ELSE FieldDiff(key, before.m[key], before.m[key], NilV) \o rest
        ELSE <<>>

\* The maps handed to CalculateDiff: nil, or a map of some of the keys to a
\* string, a number, nil, a map or a list
DiffDocuments ==
    LET values == {StrV(<<"v">>), StrV(<<"7">>), NumV(<<"7">>), NilV, MapV(<<"a">> :> StrV(<<"v">>)),
                   ListV(<<StrV(<<"v">>)>>)}
    IN  {NilV} \cup UNION {{MapV(m) : m \in [keys -> values]} : keys \in SUBSET TreeKeys}

DiffInit ==
    /\ cfg = CfgFromFile
    /\ InitInterceptor
    /\ InitWriter({1}, {1})
    /\ arg \in {[f |-> "CalculateDiff", dc |-> [excludedFields |-> e, sensitiveFields |-> <<>>],
                 before |-> b, after |-> a] :
                    e \in ExcludedLists \cup {<<>>}, b \in DiffDocuments, a \in DiffDocuments}
    /\ res = NoArg
    /\ repo = "mock"

\* The call panics when the loop over after reaches a key whose two values
\* cannot be compared; otherwise it returns the diffs in the order of the
\* two loops
CallCalculateDiff ==
    /\ arg.f = "CalculateDiff"
    /\ res = NoArg
    /\ IF \E key \in Keys(arg.after) \cap Keys(arg.before) :
              /\ ~isFieldExcluded(arg.dc, key)
              /\ ComparePanics(arg.before.m[key], arg.after.m[key])
       THEN res' = [panic |-> "runtime error: comparing uncomparable type"]
       ELSE \E afterKeys \in MapOrders(Keys(arg.after)), beforeKeys \in MapOrders(Keys(arg.before)) :
               res' = [v |-> CalculateDiff(arg.dc, arg.before, arg.after, afterKeys, beforeKeys)]
    /\ UNCHANGED <<arg, repo, ivars, bvars>>

DiffSpec == DiffInit /\ [][CallCalculateDiff]_vars

\* The diffs of a pair of maps, as a set: one for every key that is not
\* excluded and was created, deleted, or changed in value
DiffSet(dc, before, after) ==
    LET created == {k \in Keys(after) \ Keys(before) : ~isFieldExcluded(dc, k)}
        deleted == {k \in Keys(before) \ Keys(after) : ~isFieldExcluded(dc, k)}
        changed == {k \in Keys(before) \cap Keys(after) :
                       ~isFieldExcluded(dc, k) /\ ~valuesEqual(before.m[k], after.m[k])}
    IN  {[FieldName |-> k, FieldType |-> getFieldType(after.m[k]), OldValue |-> NilV,
          NewValue |-> after.m[k], Sanitized |-> FALSE] : k \in created}
        \cup {[FieldName |-> k, FieldType |-> getFieldType(before.m[k]), OldValue |-> before.m[k],
               NewValue |-> NilV, Sanitized |-> FALSE] : k \in deleted}
        \cup {[FieldName |-> k, FieldType |-> getFieldType(after.m[k]), OldValue |-> before.m[k],
               NewValue |-> after.m[k], Sanitized |-> FALSE] : k \in changed}

\* C19: CalculateDiff(a, a) returns the empty list, and the set of diffs
\* returned for a pair is the same whatever the order of the map keys.
C19_DiffOfSelfEmpty ==
    (arg.f = "CalculateDiff" /\ res # NoArg) =>
        /\ arg.before = arg.after => res = [v |-> <<>>]
        /\ "v" \in DOMAIN res =>
              /\ Range(res.v) = DiffSet(arg.dc, arg.before, arg.after)
              /\ Len(res.v) = Cardinality(DiffSet(arg.dc, arg.before, arg.after))
-----------------------------------------------------------------------------
(* The interceptor of StandaloneAuditInterceptor, checked under Spec *)

\* The events the closure of configuration c emits for the call of method
\* with req whose handler returns (resp, nil)
EventsOfCall(c, method, req, resp) ==
    EmittedLogs(c, 1,
                [method |-> method, req |-> req, bypass |-> BypassOf[c][method],
                 reqData |-> IF ~BypassOf[c][method] /\ c.IncludePayload
                             THEN protoToMap(req) ELSE NilV],
                resp, NoErr)

\* C20: the interceptor that StandaloneAuditInterceptor returns (the one
\* SetupAuditInfrastructure falls back to without an address is built the
\* same) is not a pure pass-through: some successful call makes it hand an
\* event to Save.
C20_StandaloneSavesSomeEvent ==
    cfg = CfgStandalone =>
        \E method \in FullMethods, req \in Requests, resp \in Responses :
            EventsOfCall(cfg, method, req, resp) # {}
-----------------------------------------------------------------------------
(* The entity of an emitted event, checked under Spec *)

\* C21: every event the interceptor emits has the domain with its first
\* letter capitalised as its entity.
C21_EntityIsCapitalizedDomain ==
    \A l \in Emitted : l.Entity = capitalizeFirstLetter(l.Domain)

\* C22: an event reaches the store only after it was handed to Write of
\* the bulk writer: the store never holds more events than Write was
\* called with.
C22_StoredOnlyThroughQueue ==
    Cardinality(DOMAIN logs) <= nWrites
-----------------------------------------------------------------------------
(* The workers of the BulkIndexWriter, checked under BulkSpec *)

\* How many times event e occurs in the sequence s
Occurrences(s, e) == Cardinality({i \in DOMAIN s : s[i] = e})

\* In how many places event e is held: positions of the queue and of the
\* batches of the workers
RECURSIVE HeldIn(_, _)
HeldIn(ws, e) ==
    IF ws = {} THEN 0
    ELSE LET w == CHOOSE x \in ws : TRUE
         IN  workers[w] * Occurrences(w.batch, e) + HeldIn(ws \ {w}, e)

Holders(e) == Occurrences(queue, e) + HeldIn(BagToSet(workers), e)

\* C23: every accepted event is held by the queue or by one worker, never
\* by two, and is passed to the store in at most one bulk write.
C23_NoEventWrittenTwice ==
    \A e \in Accepted :
        /\ Holders(e) <= 1
        /\ e \in DOMAIN handed => handed[e] = 1

\* Two workers are each inside a bulk write, one of a full batch and one
\* of a batch flushed at a tick
C23_Witness ==
    \E w \in BagToSet(workers), v \in BagToSet(workers) :
        /\ w.pc = "saveFull"
        /\ v.pc = "saveTick"
        /\ \A i \in DOMAIN w.batch : handed[w.batch[i]] = 1
        /\ \A i \in DOMAIN v.batch : handed[v.batch[i]] = 1
-----------------------------------------------------------------------------
(* The writer while nobody shuts it down, checked under RunningSpec *)

\* The steps of the producer and of the workers of a writer on which
\* neither Close nor Flush is called
RunningNext ==
    \/ Write
    \/ \E w \in BagToSet(workers) : WorkerRecv(w)
    \/ \E w \in BagToSet(workers) : WorkerTick(w)
    \/ \E w \in BagToSet(workers), stored \in BOOLEAN : SaveBatchReturn(w, stored)

\* The batches a worker can hold: events in the order they were written
WorkerBatches ==
    {CHOOSE s \in [1..Cardinality(S) -> S] : \A i \in 1..(Cardinality(S) - 1) : s[i] < s[i + 1] :
        S \in {T \in SUBSET (1..MaxWrites) : Cardinality(T) <= MaxBatchSize}}

\* The ticker of a worker that waits in its select with a non-empty batch
\* fires after flushInterval, and a call of saveBatchDirect returns, its
\* context timing out after 10 s.
RunningSpec ==
    /\ BulkInit
    /\ [][RunningNext]_vars
    /\ \A batch \in WorkerBatches :
          /\ WF_vars(\E w \in BagToSet(workers) : w.batch = batch /\ WorkerTick(w))
          /\ WF_vars(\E w \in BagToSet(workers), stored \in BOOLEAN :
                        w.batch = batch /\ SaveBatchReturn(w, stored))

\* C24: every event a worker has taken from the queue is eventually handed
\* to the store.
C24_TakenEventIsFlushed ==
    \A e \in 1..MaxWrites :
        (HeldIn(BagToSet(workers), e) > 0) ~> (e \in DOMAIN handed)

\* A worker is flushing at a tick a batch that is not full, the queue
\* being empty
C24_Witness ==
    \E w \in BagToSet(workers) :
        /\ w.pc = "saveTick"
        /\ Len(w.batch) < batchSize
        /\ queue = <<>>
        /\ ~stopClosed
-----------------------------------------------------------------------------
(* The Save goroutine and the context of the RPC, checked under Spec *)

\* C25: the closure returns while the event it emitted is still with the
\* Save goroutine, not yet stored; a cancellation of the context of the RPC
\* changes nothing of the pending saves or of the store; and every pending
\* save can still succeed afterwards.
C25_SaveDetachedFromCall ==
    /\ [][(callPc = "handler" /\ callPc' = "returned") =>
            /\ logs' = logs
            /\ ret' = hret'
            /\ saveTasks' = saveTasks \cup EmittedLogs(cfg, nCalls, call, hret'.resp, hret'.err)]_vars
    /\ [][(~call.ctxDone /\ call'.ctxDone) =>
            (saveTasks' = saveTasks /\ logs' = logs /\ saveErrs' = saveErrs)]_vars
    /\ [](\A log \in saveTasks : ENABLED SaveOk(log))

\* The context of the call was cancelled while its event was with the Save
\* goroutine, and the event is stored
C25_Witness ==
    /\ call.ctxDone
    /\ saveTasks = {}
    /\ \E id \in DOMAIN logs : id = nCalls
-----------------------------------------------------------------------------
(* The FieldDiffs of CalculateDiff, checked under DiffSpec *)

\* Equality of two values by their %v text, nil being equal to nil only
SameText(a, b) ==
    IF a.t = "nil" \/ b.t = "nil" THEN a.t = b.t ELSE Sprintf(a) = Sprintf(b)

\* C26: every FieldDiff returned names a field that is not excluded and has
\* an old value that differs from its new value, and no field is named by
\* two FieldDiffs.
C26_DiffsAreChanges ==
    (arg.f = "CalculateDiff" /\ "v" \in DOMAIN res) =>
        /\ \A i \in DOMAIN res.v :
              /\ ~isFieldExcluded(arg.dc, res.v[i].FieldName)
              /\ ~SameText(res.v[i].OldValue, res.v[i].NewValue)
        /\ \A i \in DOMAIN res.v : \A j \in DOMAIN res.v :
              res.v[i].FieldName = res.v[j].FieldName => i = j

\* C27: in every reachable state of the BulkIndexWriter each worker's batch
\* holds at most batchSize events and the queue holds at most 2*batchSize
\* entries, whatever the number of workers and the interleaving of Write
\* calls, ticks and flushes.
C27_BuffersBounded ==
    /\ \A w \in BagToSet(workers) : Len(w.batch) <= batchSize
    /\ Len(queue) <= 2 * batchSize

\* The queue is at its capacity while a worker is inside saveBatchDirect with
\* a batch of batchSize events.
C27_Witness ==
    /\ Len(queue) = 2 * batchSize
    /\ \E w \in BagToSet(workers) : w.pc = "saveFull" /\ Len(w.batch) = batchSize

\* C28: calling Close or Flush more than once, in any order and from any
\* number of callers, never reaches a panic: the stop channel is closed at
\* most once, so no caller finds it closed when it reaches close(b.stopChan).
C28_RepeatedCloseNeverPanics ==
    /\ ~panicked
    /\ \A c \in Closers : closers[c].pc \in {"wait", "returned"} => stopClosed

\* The events in the batches handed to saveBatchDirect so far, an event
\* counted once for every batch it was in
HandedCount == nStored + nFailed

\* C29: the status counters separate success from failure: the events of a
\* batch whose bulk write failed are counted in failedCount and not in
\* processedCount, processedCount never decreases, and once every call of
\* saveBatchDirect has returned processedCount + failedCount is the number of
\* events in the batches handed to the store, the batch flushed at shutdown
\* included.
C29_CountersSeparateFailure ==
    /\ [](status.FailedCount = nFailed)
    /\ [](status.ProcessedCount <= nStored)
    /\ [][status'.ProcessedCount >= status.ProcessedCount]_vars
    /\ []((\A w \in BagToSet(workers) : w.pc \in {"select", "done"}) =>
            status.ProcessedCount + status.FailedCount = HandedCount)
-----------------------------------------------------------------------------
(* Config.GetIndexName run one loop iteration at a time, checked under LoopSpec *)

\* The five calls of replacePattern in GetIndexName, in the order of the
\* code: the placeholder and the value that replaces it
Substitutions(c, domain, timestamp) ==
    << <<<<"{", "p", "r", "e", "f", "i", "x", "}">>, c.Elasticsearch.IndexPrefix>>,
       <<<<"{", "d", "o", "m", "a", "i", "n", "}">>, domain>>,
       <<<<"{", "y", "y", "y", "y", "}">>, Sprintf0(4, timestamp.Year)>>,
       <<<<"{", "M", "M", "}">>, Sprintf0(2, timestamp.Month)>>,
       <<<<"{", "d", "d", "}">>, Sprintf0(2, timestamp.Day)>> >>

\* strings.ReplaceAll(pattern, placeholder, replacement) of the call of
\* replacePattern that GetIndexName is in
Replaced == LET sub == Substitutions(arg.c, arg.domain, arg.timestamp)[res.call]
            IN  ReplaceAll(res.pattern, sub[1], sub[2])

\* GetIndexName is inside one of its calls of replacePattern
InLoop == arg.f = "GetIndexName" /\ res # NoArg /\ "call" \in DOMAIN res

\* GetIndexName has returned
Returned == arg.f = "GetIndexName" /\ res # NoArg /\ "v" \in DOMAIN res

\* The process has died inside GetIndexName
OutOfMemory == arg.f = "GetIndexName" /\ res # NoArg /\ "fatal" \in DOMAIN res

\* pattern := c.Elasticsearch.IndexPattern, then the first replacePattern
EnterGetIndexName ==
    /\ arg.f = "GetIndexName"
    /\ res = NoArg
    /\ res' = [call |-> 1, pattern |-> arg.c.Elasticsearch.IndexPattern]
    /\ UNCHANGED <<arg, repo, ivars, bvars>>

\* The loop condition is true, pattern != strings.ReplaceAll(...): the body
\* assigns the replaced pattern.  A string that no longer fits in memory
\* ends the process with the runtime's fatal error.
LoopIterate ==
    /\ InLoop
    /\ res.pattern # Replaced
    /\ res' = IF Len(Replaced) <= MaxMemory
              THEN [res EXCEPT !.pattern = Replaced]
              ELSE [fatal |-> "out of memory"]
    /\ UNCHANGED <<arg, repo, ivars, bvars>>

\* The loop condition is false: replacePattern returns the pattern, and
\* GetIndexName goes on to its next call or returns
LoopExit ==
    /\ InLoop
    /\ res.pattern = Replaced
    /\ res' = IF res.call < 5
              THEN [res EXCEPT !.call = @ + 1]
              ELSE [v |-> res.pattern]
    /\ UNCHANGED <<arg, repo, ivars, bvars>>

\* The arguments of GetIndexName: prefixes and domains with and without
\* the placeholder they replace
LoopInit ==
    /\ cfg = CfgFromFile
    /\ InitInterceptor
    /\ InitWriter({1}, {1})
    /\ arg \in {[f |-> "GetIndexName",
                 c |-> [Elasticsearch |-> [IndexPrefix |-> x, IndexPattern |-> p]],
                 domain |-> d, timestamp |-> [Year |-> 2026, Month |-> 11, Day |-> 6]] :
                    p \in IndexPatterns(MaxWords),
                    x \in {<<"a", "u", "d", "i", "t", "-", "l", "o", "g">>, <<"{", "p", "r", "e", "f", "i", "x", "}">>, <<"x", "{", "p", "r", "e", "f", "i", "x", "}">>},
                    d \in {<<"a", "p", "t">>, <<"{", "d", "o", "m", "a", "i", "n", "}">>, <<"a", "{", "d", "o", "m", "a", "i", "n", "}">>}}
    /\ res = NoArg
    /\ repo = "mock"

LoopNext ==
    \/ EnterGetIndexName
    \/ LoopIterate
    \/ LoopExit

\* A call that has started runs on: no step of it waits for anything
LoopSpec ==
    /\ LoopInit
    /\ [][LoopNext]_vars
    /\ WF_vars(LoopNext)

\* C30: Config.GetIndexName terminates for every prefix, domain and pattern,
\* also when a replacement value holds the placeholder it replaces: every
\* call returns, and none ends the process by growing the pattern until the
\* memory is used up.
C30_GetIndexNameTerminates ==
    /\ []~OutOfMemory
    /\ <>Returned

=============================================================================
